---- MODULE Spec2Model ----
(***************************************************************************)
(* Model of the numeric kernels and their CPython boundary functions:      *)
(*   code_examples/hpc/carthimetic/main.c    vecadd, vecmul, vecdiv and    *)
(*                                           pyvecadd, pyvecmul, pyvecdiv  *)
(*   code_examples/hpc/cpparthimetic/main.cc vecadd, vecmul, vecdiv        *)
(*   notebooks/hpc/cpiapprox/main.c          compute_pi                    *)
(*                                                                         *)
(* Three specifications, one per program:                                  *)
(*   Spec      one call of a vector function, statement by statement       *)
(*   SpecPi    calls of compute_pi, one loop iteration per step            *)
(*   SpecConc  two kernel invocations on two threads, interleaved          *)
(***************************************************************************)
EXTENDS Integers, Sequences, FiniteSets, TLC

VARIABLES
    py,     \* the vector call in progress: arguments, locals, buffers, result
    pi,     \* the compute_pi call in progress
    prev,   \* what the host got from the compute_pi call before this one
    mem,    \* SpecConc: the native buffers, by name
    orig,   \* SpecConc: the input buffers as they were handed over
    th      \* SpecConc: the two kernel invocations

vars == <<py, pi, prev, mem, orig, th>>

(***************************************************************************)
(* Bounds of the model.                                                    *)
(***************************************************************************)
\* longest Python list passed to a vector function
MaxLen == 2
\* length of the buffers the two concurrent kernel invocations work on
MaxConcLen == 2
\* width, in bits, given to compute_pi's `int` and `unsigned int` (32 in the
\* build; the loop is stepped one iteration at a time, so the width is scaled)
IntBits == 11
\* compute_pi is called with every partitions value up to this one, ...
MaxSmallPartitions == 6

(***************************************************************************)
(* IEEE-754 doubles.  A double is [s, n, d]: sign s, magnitude n/d in      *)
(* lowest terms.  d = 0, n = 1 is an infinity; n = 0, d = 0 is NaN;        *)
(* n = 0, d = 1 is a (signed) zero.  Sums, products and quotients are the  *)
(* exact ones with the standard's rules for zeros, infinities and NaN;     *)
(* rounding of the finite results is not modelled.                         *)
(***************************************************************************)
RECURSIVE GCD(_, _)
GCD(m, k) == IF k = 0 THEN m ELSE GCD(k, m % k)

Abs(z) == IF z < 0 THEN -z ELSE z

Sgn(z) == IF z < 0 THEN -1 ELSE 1

NaN == [s |-> 1, n |-> 0, d |-> 0]

Inf(sg) == [s |-> sg, n |-> 1, d |-> 0]

Zero(sg) == [s |-> sg, n |-> 0, d |-> 1]

\* the double with sign sg and magnitude nn/dd (nn, dd >= 0)
Norm(sg, nn, dd) ==
    IF nn = 0 /\ dd = 0 THEN NaN
    ELSE IF dd = 0 THEN Inf(sg)
    ELSE IF nn = 0 THEN Zero(sg)
    ELSE LET g == GCD(nn, dd) IN [s |-> sg, n |-> nn \div g, d |-> dd \div g]

\* the double of an integer
D(z) == Norm(Sgn(z), Abs(z), 1)

IsNaN(x) == x.n = 0 /\ x.d = 0

IsInf(x) == x.n > 0 /\ x.d = 0

IsZero(x) == x.n = 0 /\ x.d > 0

IsFinite(x) == x.d > 0

\* x + y
DAdd(x, y) ==
    IF IsNaN(x) \/ IsNaN(y) THEN NaN
    ELSE IF IsInf(x) /\ IsInf(y) THEN (IF x.s = y.s THEN x ELSE NaN)
    ELSE IF IsInf(x) THEN x
    ELSE IF IsInf(y) THEN y
    ELSE LET num == x.s * x.n * y.d + y.s * y.n * x.d
             den == x.d * y.d
         IN  IF num = 0
             THEN Zero(IF x.s = -1 /\ y.s = -1 THEN -1 ELSE 1)
             ELSE Norm(Sgn(num), Abs(num), den)

\* x * y
DMul(x, y) ==
    IF IsNaN(x) \/ IsNaN(y) THEN NaN
    ELSE Norm(x.s * y.s, x.n * y.n, x.d * y.d)

\* x / y
DDiv(x, y) ==
    IF IsNaN(x) \/ IsNaN(y) THEN NaN
    ELSE Norm(x.s * y.s, x.n * y.d, x.d * y.n)

(***************************************************************************)
(* The host's values.  A list element is a Python object: a float holding  *)
(* a double, or an object of another type.  An argument is a list of       *)
(* elements or an object that is no list.                                  *)
(***************************************************************************)
Ops == {"vecadd", "vecmul", "vecdiv"}

FloatVals == {Zero(1), D(1), D(-2)}

PyFloat(x) == [isFloat |-> TRUE, v |-> x]

\* an object of another type (an int, a str, ...)
NotAFloat == [isFloat |-> FALSE, v |-> Zero(1)]

Elems == {PyFloat(x) : x \in FloatVals} \cup {NotAFloat}

SeqsUpTo(S, k) == UNION {[1..m -> S] : m \in 0..k}

PyList(items) == [isList |-> TRUE, items |-> items]

NotAList == [isList |-> FALSE, items |-> <<>>]

PyArgs == {PyList(l) : l \in SeqsUpTo(Elems, MaxLen)} \cup {NotAList}

\* what reading the ob_fval field of an object that is no float can give
Garbage == {D(7), NaN}

(***************************************************************************)
(* The kernels: the body of the loops of vecadd, vecmul and vecdiv, and    *)
(* the functors handed to std::transform.                                  *)
(***************************************************************************)
vecadd(x, y) == DAdd(x, y)

vecmul(x, y) == DMul(x, y)

\* faulty variant: a kernel that guards the divisor and stores 0 for b[i] == 0
vecdivGuarded(x, y) == IF IsZero(y) THEN Zero(1) ELSE DDiv(x, y)

vecdiv(x, y) == DDiv(x, y)

\* faulty variant: the three loops are copies of one another; the operator was not changed
KernelElemPasted(op, x, y) == vecadd(x, y)

KernelElem(op, x, y) ==
    CASE op = "vecadd" -> vecadd(x, y)
      [] op = "vecmul" -> vecmul(x, y)
      [] op = "vecdiv" -> vecdiv(x, y)

\* one iteration of a kernel's loop: c[i] = a[i] OP b[i] (i counts from 0)
KernelStore(op, a, b, c, i) ==
    [c EXCEPT ![i + 1] = KernelElem(op, a[i + 1], b[i + 1])]

(***************************************************************************)
(* Native buffers.  st is "none" before the allocation, "null" when the    *)
(* allocation failed, then "live" and "freed"; frees counts the frees.     *)
(***************************************************************************)
NoBuf == [st |-> "none", data |-> <<>>, frees |-> 0]

PyMem_Calloc(ok, nelem) ==
    IF ok THEN [st |-> "live", data |-> [k \in 1..nelem |-> Zero(1)], frees |-> 0]
          ELSE [st |-> "null", data |-> <<>>, frees |-> 0]

\* faulty variant: the free is left out
PyMem_FreeLeak(buf) == buf

PyMem_Free(buf) ==
    IF buf.st = "null" THEN buf
    ELSE [buf EXCEPT !.st = "freed", !.frees = @ + 1]

\* PyFloat_AS_DOUBLE(o): the macro reads ob_fval without looking at o's type
PyFloat_AS_DOUBLE(o, g) == IF o.isFloat THEN o.v ELSE g

NoList == [st |-> "none", items |-> <<>>, refs |-> 0]

NullItem == [set |-> FALSE, v |-> Zero(1)]

\* PyList_New(n) followed by Py_INCREF: n slots, each NULL
PyList_New(n) == [st |-> "obj", items |-> [k \in 1..n |-> NullItem], refs |-> 2]

(***************************************************************************)
(* One call of pyvecadd / pyvecmul / pyvecdiv (impl = "c") or of the       *)
(* pybind11 functions vecadd / vecmul / vecdiv (impl = "cpp").             *)
(***************************************************************************)
InitCall(impl, op, A, B) ==
    [impl |-> impl, op |-> op, listA |-> A, listB |-> B,
     pc |-> IF impl = "c" THEN "parse" ELSE "cast",
     arraySize |-> 0, a |-> NoBuf, b |-> NoBuf, c |-> NoBuf, i |-> 0,
     listC |-> NoList, err |-> "none", ret |-> "none", oob |-> FALSE]

PyIdle == InitCall("c", "vecadd", NotAList, NotAList)

OtherPy == UNCHANGED <<pi, prev, mem, orig, th>>

Crash(p) == [p EXCEPT !.pc = "crashed"]

\* PyArg_ParseTuple(args, "O!O!", &PyList_Type, ...) and the early return
ParseArgs ==
    /\ py.pc = "parse"
    /\ py' = IF py.listA.isList /\ py.listB.isList
             THEN [py EXCEPT !.pc = "size"]
             ELSE [py EXCEPT !.err = "TypeError", !.ret = "Py_None", !.pc = "returned"]
    /\ OtherPy

\* arraySize = PyList_Size(listA)
ListSize ==
    /\ py.pc = "size"
    /\ py' = [py EXCEPT !.arraySize = Len(py.listA.items), !.pc = "callocA"]
    /\ OtherPy

CallocA ==
    /\ py.pc = "callocA"
    /\ \E ok \in BOOLEAN :
         py' = [py EXCEPT !.a = PyMem_Calloc(ok, py.arraySize), !.pc = "callocB"]
    /\ OtherPy

CallocB ==
    /\ py.pc = "callocB"
    /\ \E ok \in BOOLEAN :
         py' = [py EXCEPT !.b = PyMem_Calloc(ok, py.arraySize), !.pc = "callocC"]
    /\ OtherPy

CallocC ==
    /\ py.pc = "callocC"
    /\ \E ok \in BOOLEAN :
         py' = [py EXCEPT !.c = PyMem_Calloc(ok, py.arraySize), !.pc = "copy"]
    /\ OtherPy

\* one iteration of the copy loop:
\*   a[i] = PyFloat_AS_DOUBLE(PyList_GetItem(listA, i));
\*   b[i] = PyFloat_AS_DOUBLE(PyList_GetItem(listB, i));
\* PyList_GetItem gives NULL (IndexError) for an index out of range, and the
\* macro then reads through NULL; a store through a NULL buffer faults too.
CopyStep(p, ga, gb) ==
    LET k  == p.i + 1
        va == PyFloat_AS_DOUBLE(p.listA.items[k], ga)
    IN  IF p.a.st = "null" THEN Crash(p)
        ELSE LET p1 == [p EXCEPT !.a.data[k] = va]
             IN  IF k > Len(p.listB.items)
                 THEN Crash([p1 EXCEPT !.err = "IndexError", !.oob = TRUE])
                 ELSE IF p.b.st = "null" THEN Crash(p1)
                 ELSE [p1 EXCEPT !.b.data[k] =
                                    PyFloat_AS_DOUBLE(p.listB.items[k], gb),
                                 !.i = k]

CopyElem ==
    /\ py.pc = "copy"
    /\ \/ /\ py.i < py.arraySize
          /\ \E ga \in Garbage, gb \in Garbage : py' = CopyStep(py, ga, gb)
       \/ /\ py.i >= py.arraySize
          /\ py' = [py EXCEPT !.pc = "kernel", !.i = 0]
    /\ OtherPy

\* vecadd(arraySize, a, b, c): for (i = 0; i < N; i++) c[i] = a[i] OP b[i]
KernelStep(p) ==
    IF p.a.st = "null" \/ p.b.st = "null" \/ p.c.st = "null" THEN Crash(p)
    ELSE [p EXCEPT !.c.data = KernelStore(p.op, p.a.data, p.b.data, p.c.data, p.i),
                   !.i = p.i + 1]

KernelLoop ==
    /\ py.pc = "kernel"
    /\ \/ /\ py.i < py.arraySize
          /\ py' = KernelStep(py)
       \/ /\ py.i >= py.arraySize
          /\ py' = [py EXCEPT !.pc = "newlist", !.i = 0]
    /\ OtherPy

\* listC = PyList_New(arraySize); Py_INCREF(listC);
NewList ==
    /\ py.pc = "newlist"
    /\ \E ok \in BOOLEAN :
         py' = IF ok
               THEN [py EXCEPT !.listC = PyList_New(py.arraySize), !.pc = "setitem"]
               ELSE Crash([py EXCEPT !.err = "MemoryError"])
    /\ OtherPy

\* PyList_SET_ITEM(listC, i, PyFloat_FromDouble(c[i])): the result of
\* PyFloat_FromDouble is stored as it is, NULL included
SetItemStep(p, ok) ==
    IF ok
    THEN [p EXCEPT !.listC.items[p.i + 1] = [set |-> TRUE, v |-> p.c.data[p.i + 1]],
                   !.i = p.i + 1]
    ELSE [p EXCEPT !.listC.items[p.i + 1] = NullItem,
                   !.err = "MemoryError", !.i = p.i + 1]

SetItem ==
    /\ py.pc = "setitem"
    /\ \/ /\ py.i < py.arraySize
          /\ \E ok \in BOOLEAN : py' = SetItemStep(py, ok)
       \/ /\ py.i >= py.arraySize
          /\ py' = [py EXCEPT !.pc = "freeA"]
    /\ OtherPy

FreeA ==
    /\ py.pc = "freeA"
    /\ py' = [py EXCEPT !.a = PyMem_Free(py.a), !.pc = "freeB"]
    /\ OtherPy

FreeB ==
    /\ py.pc = "freeB"
    /\ py' = [py EXCEPT !.b = PyMem_Free(py.b), !.pc = "freeC"]
    /\ OtherPy

FreeC ==
    /\ py.pc = "freeC"
    /\ py' = [py EXCEPT !.c = PyMem_Free(py.c), !.pc = "return"]
    /\ OtherPy

\* return listC;
ReturnList ==
    /\ py.pc = "return"
    /\ py' = [py EXCEPT !.ret = "listC", !.pc = "returned"]
    /\ OtherPy

(***************************************************************************)
(* cpparthimetic: pybind11 converts the two arguments to                   *)
(* std::vector<double> (TypeError when one is no sequence of numbers),     *)
(* and the function runs std::transform over a's range, reading b from     *)
(* b.begin() on and appending to c.                                        *)
(***************************************************************************)
AllFloats(arg) == arg.isList /\ \A k \in 1..Len(arg.items) : arg.items[k].isFloat

Doubles(arg) == [k \in 1..Len(arg.items) |-> arg.items[k].v]

CppCast ==
    /\ py.pc = "cast"
    /\ py' = IF AllFloats(py.listA) /\ AllFloats(py.listB)
             THEN [py EXCEPT !.a.data = Doubles(py.listA),
                             !.b.data = Doubles(py.listB), !.pc = "transform"]
             ELSE [py EXCEPT !.err = "TypeError", !.ret = "NULL", !.pc = "returned"]
    /\ OtherPy

\* one step of std::transform(a.begin(), a.end(), b.begin(), back_inserter(c), f).
\* Past b's end the read is undefined: it faults or gives whatever is there.
TransformStep(p, fault, g) ==
    LET k == p.i + 1
    IN  IF k <= Len(p.b.data)
        THEN [p EXCEPT !.c.data = Append(@, KernelElem(p.op, p.a.data[k], p.b.data[k])),
                       !.i = k]
        ELSE IF fault THEN Crash([p EXCEPT !.oob = TRUE])
        ELSE [p EXCEPT !.c.data = Append(@, KernelElem(p.op, p.a.data[k], g)),
                       !.oob = TRUE, !.i = k]

CppTransform ==
    /\ py.pc = "transform"
    /\ py.i < Len(py.a.data)
    /\ \E fault \in BOOLEAN, g \in Garbage : py' = TransformStep(py, fault, g)
    /\ OtherPy

\* return c; pybind11 builds the result list from the vector
CppReturn ==
    /\ py.pc = "transform"
    /\ py.i >= Len(py.a.data)
    /\ py' = [py EXCEPT
                !.listC = [st |-> "obj", refs |-> 1,
                           items |-> [k \in 1..Len(py.c.data) |->
                                        [set |-> TRUE, v |-> py.c.data[k]]]],
                !.ret = "listC", !.pc = "returned"]
    /\ OtherPy

(***************************************************************************)
(* cpiapprox: compute_pi.  `unsigned int partitions` and `int i` are       *)
(* IntBits wide.  dh and x are exact; the accumulator `area` is kept in    *)
(* units of 1/Scale, each term truncated to a unit, so that an estimate    *)
(* read from the model is at most two units below the real sum's.          *)
(***************************************************************************)
UIntMax == 2^IntBits - 1

IntMax == 2^(IntBits - 1) - 1

IntMin == -(2^(IntBits - 1))

Scale == 10^5

\* (unsigned int) z
ToUnsigned(z) == z % (UIntMax + 1)

RECURSIVE FracUnits(_, _, _)
\* the first `digits` decimals of r/d (0 <= r < d), as an integer
FracUnits(r, d, unit) ==
    IF unit = 0 THEN 0
    ELSE ((r * 10) \div d) * unit + FracUnits((r * 10) % d, d, unit \div 10)

\* a finite double x >= 0 in units of 1/Scale, truncated
Trunc(x) == (x.n \div x.d) * Scale + FracUnits(x.n % x.d, x.d, Scale \div 10)

\* the argument tuple of a call: one Python int, or something else.  The "I"
\* format converts without overflow checking, so a negative int is accepted.
PiInt(z) == [isInt |-> TRUE, v |-> z]

PiNotInt == [isInt |-> FALSE, v |-> 0]

PiArgs ==
    {PiInt(z) : z \in (-1..MaxSmallPartitions) \cup {1000, IntMax, IntMax + 1}}
       \cup {PiNotInt}

PiCallOf(arg) ==
    [pc |-> "parse", arg |-> arg, partitions |-> 0, i |-> 0, iters |-> 0,
     area |-> 0, dh |-> NaN, ovf |-> FALSE, err |-> "none", ret |-> "none",
     nan |-> FALSE, units |-> 0]

\* no call of compute_pi in progress
PiIdle == [PiCallOf(PiNotInt) EXCEPT !.pc = "idle"]

NoPrev == [has |-> FALSE, partitions |-> 0, units |-> 0]

OtherPi == UNCHANGED <<py, mem, orig, th>>

\* PyArg_ParseTuple(args, "I", &partitions)
PiParse ==
    /\ pi.pc = "parse"
    /\ pi' = IF pi.arg.isInt
             THEN [pi EXCEPT !.partitions = ToUnsigned(pi.arg.v), !.pc = "dh"]
             ELSE [pi EXCEPT !.err = "TypeError", !.ret = "NULL", !.pc = "returned"]
    /\ UNCHANGED prev
    /\ OtherPi

\* dh = 1.0/partitions;
ComputeDh(partitions) == DDiv(D(1), D(partitions))

PiStep ==
    /\ pi.pc = "dh"
    /\ pi' = [pi EXCEPT !.dh = ComputeDh(pi.partitions), !.pc = "loop"]
    /\ UNCHANGED prev
    /\ OtherPi

\* double x = dh * (i - 0.5);
SamplePoint(dh, i) == DMul(dh, DAdd(D(i), Norm(-1, 1, 2)))

\* 4.0/(1.0 + x*x)
Integrand(x) == DDiv(D(4), DAdd(D(1), DMul(x, x)))

\* the loop's test: i < partitions, with i converted to unsigned int
LoopTest(i, partitions) == ToUnsigned(i) < partitions

\* i++ on an int.  Past INT_MAX the increment is undefined: the build either
\* wraps the register to INT_MIN or keeps counting in a wider one.
Increment(i, wrap) ==
    IF i = IntMax THEN (IF wrap THEN IntMin ELSE i + 1) ELSE i + 1

PiLoop ==
    /\ pi.pc = "loop"
    /\ \/ /\ LoopTest(pi.i, pi.partitions)
          /\ \E wrap \in BOOLEAN :
               pi' = [pi EXCEPT
                        !.area = @ + Trunc(Integrand(SamplePoint(pi.dh, pi.i))),
                        !.iters = @ + 1,
                        !.ovf = @ \/ pi.i = IntMax,
                        !.i = Increment(pi.i, wrap)]
       \/ /\ ~LoopTest(pi.i, pi.partitions)
          /\ pi' = [pi EXCEPT !.pc = "ret"]
    /\ UNCHANGED prev
    /\ OtherPi

\* area*dh, in units of 1/Scale; 0.0 * infinity is NaN
Estimate(area, dh) == DMul(D(area), dh)

\* return PyFloat_FromDouble(area*dh);
PiReturn ==
    /\ pi.pc = "ret"
    /\ \E ok \in BOOLEAN :
         pi' = IF ok
               THEN LET e == Estimate(pi.area, pi.dh)
                    IN  [pi EXCEPT !.ret = "float", !.nan = IsNaN(e),
                                   !.units = IF IsFinite(e) THEN e.n \div e.d ELSE 0,
                                   !.pc = "returned"]
               ELSE [pi EXCEPT !.ret = "NULL", !.err = "MemoryError", !.pc = "returned"]
    /\ UNCHANGED prev
    /\ OtherPi

\* the host calls compute_pi again; prev keeps what the last call returned
PiCall ==
    /\ pi.pc = "returned"
    /\ prev' = [has |-> pi.ret = "float" /\ ~pi.nan,
                partitions |-> pi.partitions, units |-> pi.units]
    /\ \E arg \in PiArgs : pi' = PiCallOf(arg)
    /\ OtherPi

InitPi ==
    /\ pi \in {PiCallOf(arg) : arg \in PiArgs}
    /\ prev = NoPrev
    /\ py = PyIdle
    /\ mem = <<>>
    /\ orig = <<>>
    /\ th = <<>>

NextPi == PiParse \/ PiStep \/ PiLoop \/ PiReturn \/ PiCall

SpecPi == InitPi /\ [][NextPi]_vars

(***************************************************************************)
(* Spec: one call, of either module, with every argument pair.             *)
(***************************************************************************)
Init ==
    /\ py \in {InitCall(impl, op, A, B) :
                 impl \in {"c", "cpp"}, op \in Ops, A \in PyArgs, B \in PyArgs}
    /\ pi = PiIdle
    /\ prev = NoPrev
    /\ mem = <<>>
    /\ orig = <<>>
    /\ th = <<>>

Next ==
    \/ ParseArgs \/ ListSize \/ CallocA \/ CallocB \/ CallocC \/ CopyElem
    \/ KernelLoop \/ NewList \/ SetItem \/ FreeA \/ FreeB \/ FreeC \/ ReturnList
    \/ CppCast \/ CppTransform \/ CppReturn

Spec == Init /\ [][Next]_vars

(***************************************************************************)
(* SpecConc: two invocations of the kernels of carthimetic/main.c on two   *)
(* threads.  Both read the input buffers x and y (the second may take them *)
(* in the other order); each has an output buffer of its own, as           *)
(* each call of a boundary function allocates its own c.  A step is one    *)
(* iteration of a kernel's loop.                                           *)
(***************************************************************************)
Threads == {1, 2}

Invocation(op, a, b, c, N) ==
    [op |-> op, a |-> a, b |-> b, c |-> c, N |-> N, i |-> 0, pc |-> "loop"]

\* faulty variant: the kernel accumulates in place, a[i] = a[i] OP b[i]
ConcStoreInPlace(m, r) ==
    [m EXCEPT ![r.a] = KernelStore(r.op, m[r.a], m[r.b], m[r.a], r.i)]

\* c[i] = a[i] OP b[i] in the memory the threads share
ConcStore(m, r) ==
    [m EXCEPT ![r.c] = KernelStore(r.op, m[r.a], m[r.b], m[r.c], r.i)]

ThreadStep(t) ==
    /\ th[t].pc = "loop"
    /\ \/ /\ th[t].i < th[t].N
          /\ mem' = ConcStore(mem, th[t])
          /\ th' = [th EXCEPT ![t].i = @ + 1]
       \/ /\ th[t].i >= th[t].N
          /\ mem' = mem
          /\ th' = [th EXCEPT ![t].pc = "done"]
    /\ UNCHANGED <<py, pi, prev, orig>>

InitConc ==
    /\ \E N \in 0..MaxConcLen :
         \E x \in [1..N -> FloatVals], y \in [1..N -> FloatVals] :
            /\ orig = [x |-> x, y |-> y]
            /\ mem = [x |-> x, y |-> y,
                      c1 |-> [k \in 1..N |-> Zero(1)],
                      c2 |-> [k \in 1..N |-> Zero(1)]]
            /\ \E op1 \in Ops, op2 \in Ops, swap \in BOOLEAN :
                 th = [t \in Threads |->
                         IF t = 1 THEN Invocation(op1, "x", "y", "c1", N)
                         ELSE IF swap THEN Invocation(op2, "y", "x", "c2", N)
                         ELSE Invocation(op2, "x", "y", "c2", N)]
    /\ py = PyIdle
    /\ pi = PiIdle
    /\ prev = NoPrev

NextConc == \E t \in Threads : ThreadStep(t)

SpecConc == InitConc /\ [][NextConc]_vars

(***************************************************************************)
(* Properties of a vector call (checked under Spec).                       *)
(***************************************************************************)
ItemsA == py.listA.items

ItemsB == py.listB.items

BothLists == py.listA.isList /\ py.listB.isList

FloatLists == AllFloats(py.listA) /\ AllFloats(py.listB)

EqualLength == BothLists /\ Len(ItemsA) = Len(ItemsB)

Ended == py.pc \in {"returned", "crashed"}

\* a[i] OP b[i] as the contract states it
Expected(op, x, y) ==
    CASE op = "vecadd" -> DAdd(x, y)
      [] op = "vecmul" -> DMul(x, y)
      [] op = "vecdiv" -> DDiv(x, y)

ZeroDivisor == \E k \in 1..Len(ItemsB) : ItemsB[k].isFloat /\ IsZero(ItemsB[k].v)

AllSet(l) == \A k \in 1..Len(l.items) : l.items[k].set

\* C1: a call with len(a) # len(b) fails with LengthMismatch: it returns no
\* list and reads no element at an index at or beyond a list's length.
C1_LengthMismatchFails ==
    (FloatLists /\ Len(ItemsA) # Len(ItemsB)) =>
        /\ ~py.oob
        /\ py.ret # "listC"
        /\ Ended => (py.pc = "returned" /\ py.err = "LengthMismatch")

\* C2: for equal-length lists of floats (vecdiv: no zero in b) the returned
\* list has len(a) elements and element i is a[i] OP b[i], in input order;
\* the native buffer c holds the same values when the kernel has run.
C2_ElementwiseResult ==
    (FloatLists /\ EqualLength /\ (py.op = "vecdiv" => ~ZeroDivisor)) =>
        /\ (py.pc = "newlist" /\ py.c.st = "live") =>
              /\ Len(py.c.data) = Len(ItemsA)
              /\ \A k \in 1..Len(ItemsA) :
                    py.c.data[k] = Expected(py.op, ItemsA[k].v, ItemsB[k].v)
        /\ py.ret = "listC" =>
              /\ Len(py.listC.items) = Len(ItemsA)
              /\ py.err = "none" => AllSet(py.listC)
              /\ \A k \in 1..Len(ItemsA) :
                    py.listC.items[k].set =>
                       py.listC.items[k].v = Expected(py.op, ItemsA[k].v, ItemsB[k].v)

C2_Witness ==
    /\ py.impl = "c" /\ py.op = "vecdiv" /\ py.ret = "listC" /\ py.err = "none"
    /\ ItemsA = <<PyFloat(D(1)), PyFloat(D(-2))>>
    /\ ItemsB = <<PyFloat(D(-2)), PyFloat(D(1))>>
    /\ py.listC.items = <<[set |-> TRUE, v |-> Norm(-1, 1, 2)],
                          [set |-> TRUE, v |-> D(-2)]>>

C5_TypeErrorOnBadInput ==
    (py.impl = "c" /\ ~FloatLists) =>
        /\ py.ret \notin {"listC", "Py_None"}
        /\ Ended => (py.pc = "returned" /\ py.err = "TypeError" /\ py.ret = "NULL")

Bufs == <<py.a, py.b, py.c>>

\* C7: no buffer is ever freed twice, and when a boundary function returns,
\* every buffer it allocated has been freed exactly once.
C7_BuffersFreedOnce ==
    \A n \in 1..3 :
        /\ Bufs[n].frees <= 1
        /\ (py.impl = "c" /\ py.pc = "returned") =>
              /\ Bufs[n].st \in {"none", "null", "freed"}
              /\ Bufs[n].st = "freed" <=> Bufs[n].frees = 1

C7_Witness ==
    /\ py.impl = "c" /\ py.pc = "returned" /\ py.ret = "listC"
    /\ py.arraySize = MaxLen
    /\ py.a.st = "freed" /\ py.b.st = "freed" /\ py.c.st = "freed"

\* C8: a boundary call ends either with a complete list (len(a) elements, each
\* a computed result) or with an error and no list.
C8_AllOrNothing ==
    (py.impl = "c" /\ Ended) =>
        /\ py.pc = "returned"
        /\ \/ /\ py.ret = "listC" /\ py.err = "none"
              /\ Len(py.listC.items) = Len(ItemsA)
              /\ AllSet(py.listC)
           \/ py.ret # "listC" /\ py.err # "none"

(***************************************************************************)
(* Properties of compute_pi (checked under SpecPi).                        *)
(***************************************************************************)
\* pi in units of 1/Scale, truncated: 3.14159
PiUnits == 3 * Scale + 14159

\* 1e-4 in units of 1/Scale
Tolerance == Scale \div 10000

\* |estimate - pi|, to within the two units the truncation can cost
ErrLow(units) == IF units >= PiUnits + 1 THEN units - (PiUnits + 1)
                 ELSE IF units + 2 <= PiUnits THEN PiUnits - (units + 2)
                 ELSE 0

ErrHigh(units) == IF units >= PiUnits THEN units + 2 - PiUnits
                  ELSE PiUnits + 1 - units

Accepted == pi.arg.isInt /\ pi.pc \notin {"idle", "parse"}

\* C3: compute_pi(0) fails with InvalidArgument and returns no number, and
\* the check comes before dh = 1/partitions is computed.
C3_ZeroPartitionsRejected ==
    (Accepted /\ pi.partitions = 0) =>
        /\ pi.pc \notin {"loop", "ret"}
        /\ pi.ret # "float"
        /\ pi.pc = "returned" => pi.err = "InvalidArgument"

\* C6: the estimate gets closer to pi as partitions grows, and
\* compute_pi(1000) is within 1e-4 of pi.
C6_ConvergesMonotonically ==
    (pi.pc = "returned" /\ pi.ret = "float" /\ pi.partitions > 0) =>
        /\ ~pi.nan
        /\ pi.partitions = 1000 => ErrLow(pi.units) < Tolerance
        /\ (prev.has /\ 0 < prev.partitions /\ prev.partitions < pi.partitions) =>
              ErrLow(pi.units) <= ErrHigh(prev.units)

\* C10: for every accepted partitions > 0 the loop runs exactly partitions
\* times, i takes the values 0 .. partitions-1 in turn, never a negative or
\* wrapped one, and the counter does not overflow.
C10_LoopCounterExact ==
    (Accepted /\ pi.partitions > 0 /\ pi.pc \in {"loop", "ret", "returned"}) =>
        /\ ~pi.ovf
        /\ pi.i >= 0 /\ pi.i <= IntMax
        /\ pi.i = pi.iters
        /\ pi.pc \in {"ret", "returned"} => pi.iters = pi.partitions

\* the second half of C6 alone
C6_Thousand ==
    (pi.pc = "returned" /\ pi.ret = "float" /\ pi.partitions = 1000) =>
        ErrLow(pi.units) < Tolerance

(***************************************************************************)
(* Properties of two concurrent kernel invocations (checked under          *)
(* SpecConc).                                                              *)
(***************************************************************************)
\* what the invocation r computes when it runs alone on the inputs
Alone(r) == [k \in 1..r.N |-> Expected(r.op, orig[r.a][k], orig[r.b][k])]

\* C9: under every interleaving of the two loops the inputs stay as they
\* were, each invocation has written exactly the elements it has got to, and
\* a finished invocation's output is the one it produces alone.
C9_ConcurrentKernels ==
    /\ mem.x = orig.x /\ mem.y = orig.y
    /\ \A t \in Threads :
          /\ \A k \in 1..th[t].N :
                mem[th[t].c][k] = IF k <= th[t].i THEN Alone(th[t])[k] ELSE Zero(1)
          /\ th[t].pc = "done" => mem[th[t].c] = Alone(th[t])

C9_Witness ==
    /\ th[1].pc = "done" /\ th[2].pc = "done"
    /\ th[1].N = MaxConcLen
    /\ th[1].op = "vecdiv" /\ th[2].op = "vecmul" /\ th[2].a = "y"
    /\ mem.c1 # mem.c2
    /\ \A k \in 1..MaxConcLen : ~IsZero(mem.c1[k]) /\ ~IsZero(mem.c2[k])

====
